---- MODULE Spec2Model ----
(***************************************************************************)
(* r-autopkg: the recipe index builder (build_recipe_map) and the recipe   *)
(* chain resolver (load_recipe) of src/src/recipes/mod.rs, over a file     *)
(* tree chosen at start.                                                   *)
(*                                                                         *)
(* Spec and FairSpec run builds and resolutions over a tree that stays as  *)
(* it is; DamagedSpec does so over property lists that are no recipes;     *)
(* RebuildSpec runs builds over a tree whose files go and change; RaceSpec *)
(* lets a build run during a resolution; UnitSpec calls the functions of   *)
(* the module one at a time, WalkSpec the directory walk alone, and        *)
(* PrefsSpec the two methods that edit Preferences.recipe_search_dirs.     *)
(*                                                                         *)
(* Text is modelled structurally.  A file name, an identifier and a short  *)
(* name are sequences of dot-separated segments: "Mid.download.recipe" is  *)
(* <<"Mid", "download", "recipe">> and ".git" is <<"", "git">>.  A path is *)
(* a record [dir, rel]: the scanned directory and the components below it. *)
(* Option<T> is a sequence: <<>> is None and <<x>> is Some(x).             *)
(***************************************************************************)
EXTENDS Integers, Sequences, FiniteSets, TLC

VARIABLES
    files,               \* the file tree: path -> document (format "absent": no such file)
    recipe_search_dirs,  \* Preferences.recipe_search_dirs
    recipe_map_file,     \* the file at Preferences.recipe_map_path
    build_log,           \* what each build_recipe_map call so far did
    pc,                  \* where the load_recipe call stands
    id,                  \* load_recipe: its argument
    recipe,              \* load_recipe: the binding of line 204
    identifier_chain,    \* load_recipe: the vector of line 214
    failure,             \* the panic message of the call, "" when none
    call,                \* the last direct call of a function of the library:
                         \* its name, its argument and what it gave
    prefs_file,          \* the file at Preferences.prefs_path
    looked_up            \* load_recipe: the get_recipe_path_by_identifier calls
                         \* made so far, each with the identifier asked for
                         \* and the recipe map file it read

vars == <<files, recipe_search_dirs, recipe_map_file, build_log,
          pc, id, recipe, identifier_chain, failure, call, prefs_file,
          looked_up>>

(***************************** bounds **************************************)

\* identifier_chain is tracked up to this many entries; the loop of
\* load_recipe goes on past it.
MaxChain == 4

\* build_recipe_map calls that are logged.
MaxBuilds == 2

\* add_to_search_dirs is called while the list is shorter than this.
MaxDirs == 3

(************************** program constants ******************************)

WalkMinDepth == 1
WalkMaxDepth == 3

recipe_repo_dir == "R"

(**************************** text helpers *********************************)

\* The segments of the model in byte order ('.' sorts below every letter, so
\* comparing segment by segment is comparing the dotted strings).
SegOrder == <<"", "Gone", "Leaf", "Mid", "Root", "com", "download", "git",
              "recipe", "repo", "sub", "sub2">>

SegRank(s) == CHOOSE i \in 1..Len(SegOrder) : SegOrder[i] = s

RECURSIVE LexLess(_, _)
LexLess(a, b) ==
    IF a = <<>> THEN b # <<>>
    ELSE IF b = <<>> THEN FALSE
    ELSE IF a[1] = b[1] THEN LexLess(Tail(a), Tail(b))
    ELSE SegRank(a[1]) < SegRank(b[1])

\* The keys of a BTreeMap, in the order the map iterates them.
RECURSIVE SortedKeys(_)
SortedKeys(S) ==
    IF S = {} THEN <<>>
    ELSE LET m == CHOOSE x \in S : \A y \in S \ {x} : LexLess(x, y)
         IN  <<m>> \o SortedKeys(S \ {m})

\* Segments that begin with the letters "git".
GitPrefixed == {"git", "github", "gitkeep"}

(***************************** documents ***********************************)

NoInput == [k \in {} |-> ""]

Doc(format, idtype, ident, desc, minver, parent, input, process) ==
    [format |-> format, idtype |-> idtype, Identifier |-> ident,
     Description |-> desc, MinimumVersion |-> minver,
     ParentRecipe |-> parent, Input |-> input, Process |-> process,
     lacks |-> {}]

\* The document without one of its keys.
Lacking(doc, key) == [doc EXCEPT !.lacks = {key}]

\* The document in the YAML encoding.
AsYaml(doc) == [doc EXCEPT !.format = "yaml"]

Absent == Doc("absent", "missing", <<>>, "", "", <<>>, NoInput, <<>>)

idRoot == <<"com", "Root">>
idMid  == <<"com", "Mid">>
idLeaf == <<"com", "Leaf">>
idGone == <<"com", "Gone">>

RootDoc == Doc("plist", "string", idRoot, "root", "1.0", <<>>,
               [k \in {"NAME", "URL"} |-> "root"], <<"r1", "r2">>)
\* A root recipe that is not valid: its Description is empty.
RootInvalidDoc == Doc("plist", "string", idRoot, "", "1.0", <<>>,
                      [k \in {"NAME", "URL"} |-> "root"], <<"r1", "r2">>)
\* Another file with the identifier of RootDoc.
RootAltDoc == Doc("plist", "string", idRoot, "alt", "1.0", <<>>,
                  [k \in {"NAME"} |-> "alt"], <<"a1">>)
MidDoc == Doc("plist", "string", idMid, "mid", "1.0", <<idRoot>>,
              [k \in {"URL", "PKG"} |-> "mid"], <<"m1">>)
\* A recipe that names itself as its parent.
SelfDoc == Doc("plist", "string", idMid, "self", "1.0", <<idMid>>,
               [k \in {"NAME"} |-> "self"], <<"s1">>)
\* A recipe whose parent is in no file.
OrphanDoc == Doc("plist", "string", idMid, "orphan", "1.0", <<idGone>>,
                 [k \in {"NAME"} |-> "orphan"], <<"o1">>)
LeafDoc == Doc("plist", "string", idLeaf, "leaf", "1.0", <<idMid>>,
               [k \in {"NAME", "PKG"} |-> "leaf"], <<"l1", "l2">>)
LeafAltDoc == Doc("plist", "string", idLeaf, "leafalt", "1.0", <<idRoot>>,
                  [k \in {"PKG"} |-> "leafalt"], <<"b1">>)
\* A property list without the key Identifier.
NoIdDoc == Doc("plist", "missing", <<>>, "noid", "1.0", <<>>,
               [k \in {"NAME"} |-> "noid"], <<>>)
\* Property lists with an Identifier that are no recipes: one has no
\* MinimumVersion, the other no Process.
LeafLackingDoc == Lacking(LeafDoc, "MinimumVersion")
RootLackingDoc == Lacking(RootDoc, "Process")
\* A root recipe whose ParentRecipe is the empty string.
RootEmptyParentDoc == Doc("plist", "string", idRoot, "root", "1.0", << <<>> >>,
                          [k \in {"NAME", "URL"} |-> "root"], <<"r1", "r2">>)
\* A file that is neither a property list nor YAML.
OtherDoc == Doc("other", "missing", <<>>, "", "", <<>>, NoInput, <<>>)
\* A directory.
DirDoc == Doc("directory", "missing", <<>>, "", "", <<>>, NoInput, <<>>)

(***************************** the file tree *******************************)

Path(dir, rel) == [dir |-> dir, rel |-> rel]

RootFile == <<"Root", "recipe">>
MidFile  == <<"Mid", "download", "recipe">>
LeafFile == <<"Leaf", "recipe">>

P1 == Path("D1", <<RootFile>>)
P2 == Path("D1", <<<<"sub">>, MidFile>>)
P3 == Path("D2", <<LeafFile>>)
P4 == Path("D1", <<<<"sub2">>, RootFile>>)
P5 == Path("D2", <<<<"sub">>, RootFile>>)
P6 == Path("R",  <<<<"repo">>, LeafFile>>)
P7 == Path("D2", <<<<"", "git">>, MidFile>>)

Paths == {P1, P2, P3, P4, P5, P6, P7}

\* More places under D1, for the walk alone: three levels down and four, in
\* a directory .github and in a directory sub.git, files named
\* .gitkeep.recipe, Root.plist and .recipe, and a directory pkg.recipe.
W1 == Path("D1", <<<<"sub">>, <<"sub2">>, LeafFile>>)
W2 == Path("D1", <<<<"sub">>, <<"sub2">>, <<"sub3">>, LeafFile>>)
W3 == Path("D1", <<<<"", "github">>, RootFile>>)
W4 == Path("D1", <<<<"", "gitkeep", "recipe">>>>)
W5 == Path("D1", <<<<"sub", "git">>, RootFile>>)
W6 == Path("D1", <<<<"Root", "plist">>>>)
W7 == Path("D1", <<<<"pkg", "recipe">>>>)
W8 == Path("D1", <<<<"", "recipe">>>>)

WalkPaths == {W1, W2, W3, W4, W5, W6, W7, W8}

\* What each path may hold.
Options(p) ==
    IF p = P1 THEN {Absent, RootDoc, RootInvalidDoc}
    ELSE IF p = P2 THEN {Absent, MidDoc, SelfDoc, OrphanDoc}
    ELSE IF p = P3 THEN {Absent, LeafDoc, NoIdDoc}
    ELSE IF p = P4 THEN {Absent, RootAltDoc}
    ELSE IF p = P5 THEN {Absent, RootAltDoc}
    ELSE IF p = P6 THEN {Absent, LeafAltDoc}
    ELSE {Absent, MidDoc}

SearchDirLists == {<<"D1", "D2">>, <<"D2", "D1">>}

\* The names a caller asks load_recipe for.
Requests == {idRoot, idMid, idLeaf, idGone, <<"Root">>}

(************************ the index builder ********************************)

\* is_recipe_file: the name ends with ".recipe".
is_recipe_file(name) == Len(name) >= 2 /\ name[Len(name)] = "recipe"

\* is_git_folder: the name starts with ".git".
is_git_folder_exact(name) == name = <<"", "git">>
is_git_folder(name) == Len(name) >= 2 /\ name[1] = "" /\ name[2] \in GitPrefixed

\* The entries the walker of get_all_recipes_recursively_from_folder keeps.
Candidates(dir) ==
    {p \in DOMAIN files :
        /\ p.dir = dir
        /\ files[p].format # "absent"
        /\ Len(p.rel) >= WalkMinDepth
        /\ Len(p.rel) <= WalkMaxDepth
        /\ \A i \in 1..Len(p.rel) : ~is_git_folder(p.rel[i])
        /\ is_recipe_file(p.rel[Len(p.rel)])}

\* The number of leading directories two paths share.
RECURSIVE SharedDirs(_, _)
SharedDirs(a, b) ==
    IF Len(a) <= 1 \/ Len(b) <= 1 \/ a[1] # b[1] THEN 0
    ELSE 1 + SharedDirs(Tail(a), Tail(b))

\* The orders in which the walker may yield a directory's candidates: depth
\* first, the entries of one directory in the order the file system lists
\* them, which WalkDir leaves unspecified (no sort_by).
get_all_recipes_recursively_from_folder(dir) ==
    LET C == Candidates(dir)
        n == Cardinality(C)
    IN  {w \in [1..n -> C] :
            /\ \A i, j \in 1..n : i # j => w[i] # w[j]
            /\ \A i, j, k \in 1..n :
                  (i < j /\ j < k) =>
                      SharedDirs(w[i].rel, w[k].rel) <= SharedDirs(w[i].rel, w[j].rel)}

\* plist::Value: a string, an array or a dictionary of values under keys.
NoEntries == [k \in {} |-> ""]
StringValue(s) == [type |-> "string", string |-> s, entries |-> NoEntries]
ArrayValue == [type |-> "array", string |-> "", entries |-> NoEntries]
Dictionary(entries) == [type |-> "dictionary", string |-> "", entries |-> entries]

\* Value::as_dictionary, Dictionary::get and Value::as_string.
as_dictionary(value) == IF value.type = "dictionary" THEN <<value.entries>> ELSE <<>>
dict_get(dict, key) == IF key \in DOMAIN dict THEN <<dict[key]>> ELSE <<>>
as_string(value) == IF value.type = "string" THEN <<value.string>> ELSE <<>>

\* get_string_key_from_recipe_value: the chain of and_then, then unwrap.
get_string_key_from_recipe_value_or_default(recipe_data, key) ==
    LET dict == as_dictionary(recipe_data)
        entry == IF dict = <<>> THEN <<>> ELSE dict_get(dict[1], key)
        identifier == IF entry = <<>> THEN <<>> ELSE as_string(entry[1])
    IN  IF identifier = <<>> THEN [panicked |-> FALSE, value |-> ""]
        ELSE [panicked |-> FALSE, value |-> identifier[1]]
get_string_key_from_recipe_value(recipe_data, key) ==
    LET dict == as_dictionary(recipe_data)
        entry == IF dict = <<>> THEN <<>> ELSE dict_get(dict[1], key)
        identifier == IF entry = <<>> THEN <<>> ELSE as_string(entry[1])
    IN  IF identifier = <<>> THEN [panicked |-> TRUE, value |-> ""]
        ELSE [panicked |-> FALSE, value |-> identifier[1]]

\* get_key_from_recipe_file(recipe, "Identifier"): Value::from_file, then
\* get_string_key_from_recipe_value; both unwrap.
get_key_from_recipe_file(p) ==
    IF files[p].format # "plist" THEN [panicked |-> TRUE, key |-> <<>>]
    ELSE IF files[p].idtype # "string" THEN [panicked |-> TRUE, key |-> <<>>]
    ELSE [panicked |-> FALSE, key |-> files[p].Identifier]

\* calculate_short_name: Path::file_stem of the last component: the whole
\* name when it has no dot or only a leading one, else what precedes the
\* last dot.
calculate_short_name(p) ==
    LET name == p.rel[Len(p.rel)]
    IN  IF Len(name) = 1 THEN name
        ELSE IF Len(name) = 2 /\ name[1] = "" THEN name
        ELSE SubSeq(name, 1, Len(name) - 1)

\* BTreeMap::insert.
Insert(map, k, v) ==
    [x \in (DOMAIN map) \cup {k} |-> IF x = k THEN v ELSE map[x]]

EmptyMap == [x \in {} |-> P1]

\* Lines 341-342: the two inserts for one candidate.
insert_recipe_shortname_once(maps, identifier, shortname, p) ==
    [panicked |-> FALSE,
     identifier_map |-> Insert(maps.identifier_map, identifier, p),
     shortname_map |-> IF shortname \in DOMAIN maps.shortname_map
                       THEN maps.shortname_map
                       ELSE Insert(maps.shortname_map, shortname, p)]
insert_recipe(maps, identifier, shortname, p) ==
    [panicked |-> FALSE,
     identifier_map |-> Insert(maps.identifier_map, identifier, p),
     shortname_map |-> Insert(maps.shortname_map, shortname, p)]

\* build_maps_from_folder over the candidates in the order walked.
RECURSIVE build_maps_from_folder(_, _)
build_maps_from_folder(walk, maps) ==
    IF maps.panicked \/ walk = <<>> THEN maps
    ELSE LET p == Head(walk)
             identifier == get_key_from_recipe_file(p)
             shortname == calculate_short_name(p)
         IN  IF identifier.panicked
             THEN [maps EXCEPT !.panicked = TRUE]
             ELSE build_maps_from_folder(Tail(walk),
                    insert_recipe(maps, identifier.key, shortname, p))

\* The directories build_recipe_map scans, in order.
paths_to_search_repo_first == <<recipe_repo_dir>> \o recipe_search_dirs
paths_to_search == recipe_search_dirs \o <<recipe_repo_dir>>

\* One walk per scanned directory.
RECURSIVE WalkChoices(_)
WalkChoices(dirs) ==
    IF dirs = <<>> THEN {<<>>}
    ELSE {<<w>> \o rest : w \in get_all_recipes_recursively_from_folder(Head(dirs)),
                          rest \in WalkChoices(Tail(dirs))}

RECURSIVE ScanFolders(_, _)
ScanFolders(walks, maps) ==
    IF walks = <<>> THEN maps
    ELSE ScanFolders(Tail(walks), build_maps_from_folder(Head(walks), maps))

\* serde_json::to_string_pretty of one table: its entries in key order.
SerializeTable(map) ==
    LET keys == SortedKeys(DOMAIN map)
    IN  [i \in 1..Len(keys) |-> <<keys[i], map[keys[i]]>>]

\* The document written at recipe_map_path: the tables in key order.
SerializeMap(identifier_map, shortname_map) ==
    [exists |-> TRUE,
     tables |-> << <<"identifiers", SerializeTable(identifier_map)>>,
                   <<"shortnames", SerializeTable(shortname_map)>> >>]

NoMapFile == [exists |-> FALSE, tables |-> <<>>]

\* read_recipe_map: the file parsed back into its tables.
ParseTable(entries) ==
    [k \in {entries[i][1] : i \in DOMAIN entries} |->
        entries[CHOOSE i \in DOMAIN entries :
                   /\ entries[i][1] = k
                   /\ \A j \in DOMAIN entries : entries[j][1] = k => j <= i][2]]

read_recipe_map(file) ==
    [t \in {file.tables[i][1] : i \in DOMAIN file.tables} |->
        ParseTable(file.tables[CHOOSE i \in DOMAIN file.tables :
                                  file.tables[i][1] = t][2])]

\* build_recipe_map, given the walks of its directories: both tables start
\* empty at every call.
build_recipe_map_incremental(walks) ==
    LET old == IF recipe_map_file.exists
               THEN read_recipe_map(recipe_map_file)
               ELSE [t \in {"identifiers", "shortnames"} |-> EmptyMap]
        maps == ScanFolders(walks, [panicked |-> FALSE,
                                    identifier_map |-> old["identifiers"],
                                    shortname_map |-> old["shortnames"]])
    IN  IF maps.panicked
        THEN [outcome |-> "panic", written |-> NoMapFile]
        ELSE [outcome |-> "ok",
              written |-> SerializeMap(maps.identifier_map, maps.shortname_map)]
build_recipe_map(walks) ==
    LET maps == ScanFolders(walks, [panicked |-> FALSE,
                                    identifier_map |-> EmptyMap,
                                    shortname_map |-> EmptyMap])
    IN  IF maps.panicked
        THEN [outcome |-> "panic", written |-> NoMapFile]
        ELSE [outcome |-> "ok",
              written |-> SerializeMap(maps.identifier_map, maps.shortname_map)]


\* find_recipe_in_map: identifiers first, then shortnames.  Indexing the map
\* with a table it does not hold panics; shortnames is indexed only when
\* identifiers has no such key.
find_recipe_in_map_shortnames_first(map, name) ==
    IF "shortnames" \notin DOMAIN map
    THEN [panicked |-> TRUE, found |-> <<>>]
    ELSE IF name \in DOMAIN map["shortnames"]
    THEN [panicked |-> FALSE, found |-> <<map["shortnames"][name]>>]
    ELSE IF "identifiers" \notin DOMAIN map
    THEN [panicked |-> TRUE, found |-> <<>>]
    ELSE IF name \in DOMAIN map["identifiers"]
    THEN [panicked |-> FALSE, found |-> <<map["identifiers"][name]>>]
    ELSE [panicked |-> FALSE, found |-> <<>>]
find_recipe_in_map(map, name) ==
    IF "identifiers" \notin DOMAIN map
    THEN [panicked |-> TRUE, found |-> <<>>]
    ELSE IF name \in DOMAIN map["identifiers"]
    THEN [panicked |-> FALSE, found |-> <<map["identifiers"][name]>>]
    ELSE IF "shortnames" \notin DOMAIN map
    THEN [panicked |-> TRUE, found |-> <<>>]
    ELSE IF name \in DOMAIN map["shortnames"]
    THEN [panicked |-> FALSE, found |-> <<map["shortnames"][name]>>]
    ELSE [panicked |-> FALSE, found |-> <<>>]

(************************* the chain resolver ******************************)

NoPath == Path("", <<>>)

NoRecipe == [description |-> "", identifier |-> <<>>, minimum_version |-> "",
             parent_recipe |-> <<>>, input |-> NoInput, process |-> <<>>,
             parent_recipe_trust_info |-> <<>>]

\* The Recipe a document deserializes to.
ToRecipe(doc) ==
    [description |-> doc.Description, identifier |-> doc.Identifier,
     minimum_version |-> doc.MinimumVersion, parent_recipe |-> doc.ParentRecipe,
     input |-> doc.Input, process |-> doc.Process,
     parent_recipe_trust_info |-> <<>>]

DocAt(path) == IF path \in DOMAIN files THEN files[path] ELSE Absent

\* Whether a document has the shape of the struct Recipe: Identifier is a
\* string and no field without a default is missing.
RecipeShaped(doc) == doc.idtype = "string" /\ doc.lacks = {}

\* read_plist_recipe: plist::from_file into a Recipe.
read_plist_recipe(path) ==
    IF DocAt(path).format = "plist" /\ RecipeShaped(DocAt(path))
    THEN [status |-> "ok", recipe |-> ToRecipe(DocAt(path))]
    ELSE [status |-> "err", recipe |-> NoRecipe]

\* read_yaml_recipe: File::open(..).expect, then serde_yaml::from_reader.
read_yaml_recipe(path) ==
    IF DocAt(path).format = "absent"
    THEN [status |-> "panic", recipe |-> NoRecipe]
    ELSE IF DocAt(path).format = "yaml" /\ RecipeShaped(DocAt(path))
    THEN [status |-> "ok", recipe |-> ToRecipe(DocAt(path))]
    ELSE [status |-> "err", recipe |-> NoRecipe]

\* read_recipe: the property list first, YAML when that failed (or_else);
\* attempts lists the parsers run, in order.  An "err" is UnreadableFileError.
read_recipe_yaml_first(path) ==
    LET yaml == read_yaml_recipe(path)
        plist == read_plist_recipe(path)
    IN  IF yaml.status # "err"
        THEN [status |-> yaml.status, recipe |-> yaml.recipe,
              attempts |-> <<"yaml">>]
        ELSE [status |-> plist.status, recipe |-> plist.recipe,
              attempts |-> <<"yaml", "plist">>]
read_recipe(path) ==
    LET plist == read_plist_recipe(path)
        yaml == read_yaml_recipe(path)
    IN  IF plist.status = "ok"
        THEN [status |-> "ok", recipe |-> plist.recipe,
              attempts |-> <<"plist">>]
        ELSE [status |-> yaml.status, recipe |-> yaml.recipe,
              attempts |-> <<"plist", "yaml">>]

\* Recipe::has_parent: parent_recipe.as_deref().unwrap_or("").is_empty()
\* gives false.
has_parent_is_some(r) == r.parent_recipe # <<>>
has_parent(r) ==
    LET parent == IF r.parent_recipe = <<>> THEN <<>> ELSE r.parent_recipe[1]
    IN  ~(parent = <<>>)

\* get_parent_identifier: a copy of parent_recipe.
get_parent_identifier(r) == r.parent_recipe

\* Recipe::is_valid_recipe.
is_valid_recipe_all_empty(r) ==
    /\ ~(r.description = "" /\ r.identifier = <<>> /\ r.minimum_version = "")
    /\ "NAME" \in DOMAIN r.input
is_valid_recipe(r) ==
    /\ ~(r.description = "" \/ r.identifier = <<>> \/ r.minimum_version = "")
    /\ "NAME" \in DOMAIN r.input

PanicNoMap == "Unable to read recipe map"
PanicNoTable == "no entry found for key"
PanicNotFound == "Identifier not found in recipe map"
PanicUnreadable == "called Result::unwrap() on an Err value: UnreadableFileError"
PanicOpen == "Could not open file!"

\* get_recipe_path_by_identifier: the map is read from disk at every call and
\* only its identifiers table is consulted.
get_recipe_path_by_identifier(identifier) ==
    IF ~recipe_map_file.exists THEN [panic |-> PanicNoMap, path |-> NoPath]
    ELSE LET recipe_map == read_recipe_map(recipe_map_file)
         IN  IF "identifiers" \notin DOMAIN recipe_map
             THEN [panic |-> PanicNoTable, path |-> NoPath]
             ELSE IF identifier \in DOMAIN recipe_map["identifiers"]
             THEN [panic |-> "", path |-> recipe_map["identifiers"][identifier]]
             ELSE [panic |-> PanicNotFound, path |-> NoPath]

\* Lines 203-204 and 218-219: the path of id, then read_recipe(..).unwrap().
LookupAndRead(identifier) ==
    LET found == get_recipe_path_by_identifier(identifier)
        read == read_recipe(found.path)
    IN  IF found.panic # "" THEN [panic |-> found.panic, recipe |-> NoRecipe]
        ELSE IF read.status = "panic" THEN [panic |-> PanicOpen, recipe |-> NoRecipe]
        ELSE IF read.status = "err" THEN [panic |-> PanicUnreadable, recipe |-> NoRecipe]
        ELSE [panic |-> "", recipe |-> read.recipe]

(******************************* actions ***********************************)

NoCall == [fn |-> "", arg |-> <<>>, result |-> <<>>]

\* No file at prefs_path: the preferences have not been written.
NoPrefsFile == [exists |-> FALSE, recipe_search_dirs |-> <<>>]

\* looked_up after one more get_recipe_path_by_identifier call, which reads
\* the recipe map file (line 444); tracked up to MaxChain entries.
Lookup(identifier) ==
    IF Len(looked_up) < MaxChain
    THEN Append(looked_up, [identifier |-> identifier, map |-> recipe_map_file])
    ELSE looked_up

Init ==
    /\ \E d1 \in Options(P1), d2 \in Options(P2), d3 \in Options(P3),
          d4 \in Options(P4), d5 \in Options(P5), d6 \in Options(P6),
          d7 \in Options(P7) :
          files = [p \in Paths |->
                     IF p = P1 THEN d1 ELSE IF p = P2 THEN d2
                     ELSE IF p = P3 THEN d3 ELSE IF p = P4 THEN d4
                     ELSE IF p = P5 THEN d5 ELSE IF p = P6 THEN d6 ELSE d7]
    /\ recipe_search_dirs \in SearchDirLists
    /\ recipe_map_file = NoMapFile
    /\ build_log = <<>>
    /\ pc = "idle"
    /\ id = <<>>
    /\ recipe = NoRecipe
    /\ identifier_chain = <<>>
    /\ failure = ""
    /\ call = NoCall
    /\ prefs_file = NoPrefsFile
    /\ looked_up = <<>>

\* build_recipe_map(prefs): scan every directory, then write the map.  A
\* panic while scanning ends the call before the write.
BuildRecipeMap_writing_as_it_scans ==
    /\ pc = "idle"
    /\ Len(build_log) < MaxBuilds
    /\ \E walks \in WalkChoices(paths_to_search) :
          LET r == build_recipe_map(walks)
              maps == ScanFolders(walks, [panicked |-> FALSE,
                                          identifier_map |-> EmptyMap,
                                          shortname_map |-> EmptyMap])
          IN  /\ build_log' = Append(build_log, r)
              /\ recipe_map_file' = SerializeMap(maps.identifier_map,
                                                 maps.shortname_map)
    /\ UNCHANGED <<files, recipe_search_dirs, pc, id, recipe,
                   identifier_chain, failure, call,
                   prefs_file, looked_up>>
BuildRecipeMap ==
    /\ pc = "idle"
    /\ Len(build_log) < MaxBuilds
    /\ \E walks \in WalkChoices(paths_to_search) :
          LET r == build_recipe_map(walks)
          IN  /\ build_log' = Append(build_log, r)
              /\ recipe_map_file' = IF r.outcome = "ok" THEN r.written
                                    ELSE recipe_map_file
    /\ UNCHANGED <<files, recipe_search_dirs, pc, id, recipe,
                   identifier_chain, failure, call,
                   prefs_file, looked_up>>

\* load_recipe(id, prefs), lines 193-214: up to the start of the loop.
LoadRecipe_without_return(name) ==
    /\ pc = "idle"
    /\ id' = name
    /\ looked_up' = Lookup(name)
    /\ LET r == LookupAndRead(name)
       IN  IF r.panic # ""
           THEN /\ pc' = "panicked"
                /\ failure' = r.panic
                /\ recipe' = NoRecipe
                /\ identifier_chain' = <<>>
           ELSE /\ pc' = "loop_test"
                /\ failure' = ""
                /\ recipe' = r.recipe
                /\ identifier_chain' = <<name>>
    /\ UNCHANGED <<files, recipe_search_dirs, recipe_map_file, build_log, call,
                   prefs_file>>
LoadRecipe(name) ==
    /\ pc = "idle"
    /\ id' = name
    /\ looked_up' = Lookup(name)
    /\ LET r == LookupAndRead(name)
       IN  IF r.panic # ""
           THEN /\ pc' = "panicked"
                /\ failure' = r.panic
                /\ recipe' = NoRecipe
                /\ identifier_chain' = <<>>
           ELSE IF get_parent_identifier(r.recipe) = <<>>
           THEN /\ pc' = "returned"
                /\ failure' = ""
                /\ recipe' = r.recipe
                /\ identifier_chain' = <<>>
           ELSE /\ pc' = "loop_test"
                /\ failure' = ""
                /\ recipe' = r.recipe
                /\ identifier_chain' = <<name>>
    /\ UNCHANGED <<files, recipe_search_dirs, recipe_map_file, build_log, call,
                   prefs_file>>

\* Lines 215-217: the test of the while-let on the recipe of line 204, and
\* the push.
LoopTest ==
    /\ pc = "loop_test"
    /\ IF get_parent_identifier(recipe) # <<>>
       THEN /\ pc' = "loop_body"
            /\ identifier_chain' =
                  IF Len(identifier_chain) < MaxChain
                  THEN Append(identifier_chain, get_parent_identifier(recipe)[1])
                  ELSE identifier_chain
       ELSE /\ pc' = "returned"
            /\ identifier_chain' = identifier_chain
    /\ UNCHANGED <<files, recipe_search_dirs, recipe_map_file, build_log,
                   id, recipe, failure, call, prefs_file, looked_up>>

\* Lines 218-219: the path of id again and the file read again, into
\* bindings that end with the iteration.
LoopBody ==
    /\ pc = "loop_body"
    /\ looked_up' = Lookup(id)
    /\ LET r == LookupAndRead(id)
       IN  IF r.panic # ""
           THEN pc' = "panicked" /\ failure' = r.panic
           ELSE pc' = "loop_test" /\ failure' = failure
    /\ UNCHANGED <<files, recipe_search_dirs, recipe_map_file, build_log,
                   id, recipe, identifier_chain, call, prefs_file>>

\* The call is over (a value returned, or the process aborted by the panic);
\* the files stay.
Finish ==
    /\ pc \in {"returned", "panicked"}
    /\ pc' = "idle"
    /\ id' = <<>>
    /\ recipe' = NoRecipe
    /\ identifier_chain' = <<>>
    /\ failure' = ""
    /\ looked_up' = <<>>
    /\ UNCHANGED <<files, recipe_search_dirs, recipe_map_file, build_log, call,
                   prefs_file>>

Next ==
    \/ BuildRecipeMap
    \/ \E name \in Requests : LoadRecipe(name)
    \/ LoopTest
    \/ LoopBody
    \/ Finish

Spec == Init /\ [][Next]_vars

\* The trees that hold only the recipes of the chains, one file per short
\* name, with the search directories in one order.
ChainInit ==
    /\ Init
    /\ files[P4] = Absent /\ files[P5] = Absent
    /\ files[P6] = Absent /\ files[P7] = Absent
    /\ recipe_search_dirs = <<"D1", "D2">>

\* A call that has started keeps running: load_recipe is synchronous code.
FairSpec == ChainInit /\ [][Next]_vars /\ WF_vars(LoopTest) /\ WF_vars(LoopBody)

(************* trees with property lists that are no recipes ***************)

\* The chain com.Leaf, com.Mid, com.Root, whose first and last file may be a
\* property list that has an Identifier and lacks another key, and whose
\* last file may name the empty string as its parent.
DamagedInit ==
    /\ \E d1 \in {RootDoc, RootLackingDoc, RootEmptyParentDoc}, d2 \in {Absent, MidDoc},
          d3 \in {Absent, LeafDoc, LeafLackingDoc} :
          files = [p \in Paths |-> IF p = P1 THEN d1 ELSE IF p = P2 THEN d2
                                   ELSE IF p = P3 THEN d3 ELSE Absent]
    /\ recipe_search_dirs \in SearchDirLists
    /\ recipe_map_file = NoMapFile
    /\ build_log = <<>>
    /\ pc = "idle"
    /\ id = <<>>
    /\ recipe = NoRecipe
    /\ identifier_chain = <<>>
    /\ failure = ""
    /\ call = NoCall
    /\ prefs_file = NoPrefsFile
    /\ looked_up = <<>>

DamagedSpec == DamagedInit /\ [][Next]_vars

(**************** builds over a tree whose files go and change *************)

\* The environment: a recipe file is written, anew or over what was there.
WriteFile(p, doc) ==
    /\ pc = "idle"
    /\ files[p] # doc
    /\ files' = [files EXCEPT ![p] = doc]
    /\ UNCHANGED <<recipe_search_dirs, recipe_map_file, build_log,
                   pc, id, recipe, identifier_chain, failure, call,
                   prefs_file, looked_up>>

\* The environment: a recipe file is deleted.
RemoveFile(p) ==
    /\ pc = "idle"
    /\ files[p].format # "absent"
    /\ files' = [files EXCEPT ![p] = Absent]
    /\ UNCHANGED <<recipe_search_dirs, recipe_map_file, build_log,
                   pc, id, recipe, identifier_chain, failure, call,
                   prefs_file, looked_up>>

\* Every path of the search directories D1 and D2 outside .git and of the
\* repository directory holds a recipe.
RebuildInit ==
    /\ \E d3 \in {LeafDoc, NoIdDoc} :
          files = [p \in Paths |->
                     IF p = P1 THEN RootDoc ELSE IF p = P2 THEN MidDoc
                     ELSE IF p = P3 THEN d3
                     ELSE IF p \in {P4, P5} THEN RootAltDoc
                     ELSE IF p = P6 THEN LeafAltDoc ELSE Absent]
    /\ recipe_search_dirs \in SearchDirLists
    /\ recipe_map_file = NoMapFile
    /\ build_log = <<>>
    /\ pc = "idle"
    /\ id = <<>>
    /\ recipe = NoRecipe
    /\ identifier_chain = <<>>
    /\ failure = ""
    /\ call = NoCall
    /\ prefs_file = NoPrefsFile
    /\ looked_up = <<>>

RebuildNext ==
    \/ BuildRecipeMap
    \/ \E p \in Paths : RemoveFile(p)
    \/ \E doc \in {NoIdDoc, RootAltDoc} : WriteFile(P3, doc)

RebuildSpec == RebuildInit /\ [][RebuildNext]_vars

(**************** a build while a resolution is under way ******************)

\* build_recipe_map run by another process between two look-ups of a
\* load_recipe call: the two share the file at recipe_map_path.
RebuildDuringLoad ==
    /\ pc \in {"loop_test", "loop_body"}
    /\ Len(build_log) < MaxBuilds
    /\ \E walks \in WalkChoices(paths_to_search) :
          LET r == build_recipe_map(walks)
          IN  /\ build_log' = Append(build_log, r)
              /\ recipe_map_file' = IF r.outcome = "ok" THEN r.written
                                    ELSE recipe_map_file
    /\ UNCHANGED <<files, recipe_search_dirs, pc, id, recipe,
                   identifier_chain, failure, call,
                   prefs_file, looked_up>>

\* D1/Root.recipe and its child D1/sub/Mid.download.recipe; D2/Leaf.recipe
\* comes and goes.
RaceInit ==
    /\ files = [p \in Paths |-> IF p = P1 THEN RootDoc
                                ELSE IF p = P2 THEN MidDoc ELSE Absent]
    /\ recipe_search_dirs \in SearchDirLists
    /\ recipe_map_file = NoMapFile
    /\ build_log = <<>>
    /\ pc = "idle"
    /\ id = <<>>
    /\ recipe = NoRecipe
    /\ identifier_chain = <<>>
    /\ failure = ""
    /\ call = NoCall
    /\ prefs_file = NoPrefsFile
    /\ looked_up = <<>>

RaceNext ==
    \/ Next
    \/ RebuildDuringLoad
    \/ WriteFile(P3, LeafDoc)
    \/ RemoveFile(P3)

RaceSpec == RaceInit /\ [][RaceNext]_vars

(********************* the library's functions, called directly ************)

\* One call at a time: call holds it until the caller has taken the result.
\* What a direct call leaves alone.
program == <<files, recipe_search_dirs, recipe_map_file, build_log,
             pc, id, recipe, identifier_chain, failure, prefs_file, looked_up>>

\* The documents the file D1/Root.recipe holds in these calls.
UnitDocs == {Absent, OtherDoc, RootDoc, AsYaml(RootDoc),
             Lacking(RootDoc, "Process"), AsYaml(Lacking(RootDoc, "Process")),
             AsYaml(NoIdDoc)}

\* The recipes is_valid_recipe is called on.
UnitRecipes ==
    {[description |-> d, identifier |-> i, minimum_version |-> m,
      parent_recipe |-> pr, input |-> inp, process |-> ps,
      parent_recipe_trust_info |-> t] :
        d \in {"", "root"}, i \in {<<>>, idRoot}, m \in {"", "1.0"},
        pr \in {<<>>, << <<>> >>, <<idRoot>>},
        inp \in {NoInput, [k \in {"NAME"} |-> "n"], [k \in {"URL"} |-> "u"]},
        ps \in {<<>>, <<"p1">>}, t \in {<<>>, <<"trust">>}}

\* The maps and names find_recipe_in_map is called on: each table maps some
\* of the names com.Root and Root to a path, and a map holds some of the two
\* tables.
UnitKeys == {idRoot, <<"Root">>}
UnitTables == UNION {[K -> {P1, P4}] : K \in SUBSET UnitKeys}
UnitMaps == UNION {[T -> UnitTables] : T \in SUBSET {"identifiers", "shortnames"}}
UnitNames == {idRoot, <<"Root">>, idGone}

\* The paths calculate_short_name is called on.
UnitPaths ==
    {Path("D1", <<n>>) :
        n \in {RootFile, MidFile, <<"", "recipe">>, <<"Leaf", "recipe", "recipe">>,
               <<"", "", "recipe">>, <<"Root">>}}
    \cup {Path("D1", <<<<"sub", "recipe">>, MidFile>>)}

\* The values and keys get_string_key_from_recipe_value is called on: a
\* string, an array, and dictionaries that hold some of Identifier and
\* Process, each as a string, an empty string, an array or a dictionary.
UnitEntries == {StringValue("com.Root"), StringValue(""), ArrayValue,
                Dictionary(NoEntries)}
UnitValues ==
    {StringValue("Identifier"), ArrayValue}
    \cup {Dictionary(e) : e \in UNION {[K -> UnitEntries] :
                                          K \in SUBSET {"Identifier", "Process"}}}
UnitValueKeys == {"Identifier", "Process", "Description"}

\* generate_recipe_override: its body is comments; it returns ().
generate_recipe_override(r) == <<>>

IsValidRecipe(r) ==
    /\ call = NoCall
    /\ call' = [fn |-> "is_valid_recipe", arg |-> r, result |-> is_valid_recipe(r)]
    /\ UNCHANGED program

ReadRecipe(path) ==
    /\ call = NoCall
    /\ call' = [fn |-> "read_recipe", arg |-> path, result |-> read_recipe(path)]
    /\ UNCHANGED program

FindRecipeInMap(map, name) ==
    /\ call = NoCall
    /\ call' = [fn |-> "find_recipe_in_map", arg |-> [map |-> map, name |-> name],
                result |-> find_recipe_in_map(map, name)]
    /\ UNCHANGED program

CalculateShortName(path) ==
    /\ call = NoCall
    /\ call' = [fn |-> "calculate_short_name", arg |-> path,
                result |-> calculate_short_name(path)]
    /\ UNCHANGED program

\* A caller hands generate_recipe_override a recipe it has read.
GenerateRecipeOverride(path) ==
    /\ call = NoCall
    /\ read_recipe(path).status = "ok"
    /\ call' = [fn |-> "generate_recipe_override", arg |-> read_recipe(path).recipe,
                result |-> generate_recipe_override(read_recipe(path).recipe)]
    /\ UNCHANGED program

HasParent(r) ==
    /\ call = NoCall
    /\ call' = [fn |-> "has_parent", arg |-> r, result |-> has_parent(r)]
    /\ UNCHANGED program

GetStringKeyFromRecipeValue(recipe_data, key) ==
    /\ call = NoCall
    /\ call' = [fn |-> "get_string_key_from_recipe_value",
                arg |-> [recipe_data |-> recipe_data, key |-> key],
                result |-> get_string_key_from_recipe_value(recipe_data, key)]
    /\ UNCHANGED program

GetRecipePathByIdentifier(identifier) ==
    /\ call = NoCall
    /\ call' = [fn |-> "get_recipe_path_by_identifier", arg |-> identifier,
                result |-> get_recipe_path_by_identifier(identifier)]
    /\ UNCHANGED program

\* The caller has taken the result.
Return ==
    /\ call # NoCall
    /\ call' = NoCall
    /\ UNCHANGED program

\* One file D1/Root.recipe in either encoding or in none, with or without
\* a child of it beside.
UnitInit ==
    /\ \E d1 \in UnitDocs, d2 \in {Absent, MidDoc} :
          files = [p \in Paths |-> IF p = P1 THEN d1
                                   ELSE IF p = P2 THEN d2 ELSE Absent]
    /\ recipe_search_dirs = <<"D1", "D2">>
    /\ recipe_map_file = NoMapFile
    /\ build_log = <<>>
    /\ pc = "idle"
    /\ id = <<>>
    /\ recipe = NoRecipe
    /\ identifier_chain = <<>>
    /\ failure = ""
    /\ call = NoCall
    /\ prefs_file = NoPrefsFile
    /\ looked_up = <<>>

UnitNext ==
    \/ BuildRecipeMap
    \/ \E r \in UnitRecipes : IsValidRecipe(r)
    \/ \E path \in Paths : ReadRecipe(path)
    \/ \E map \in UnitMaps, name \in UnitNames : FindRecipeInMap(map, name)
    \/ \E path \in UnitPaths : CalculateShortName(path)
    \/ \E path \in Paths : GenerateRecipeOverride(path)
    \/ \E r \in UnitRecipes : HasParent(r)
    \/ \E recipe_data \in UnitValues, key \in UnitValueKeys :
          GetStringKeyFromRecipeValue(recipe_data, key)
    \/ \E identifier \in UnitNames : GetRecipePathByIdentifier(identifier)
    \/ Return

UnitSpec == UnitInit /\ [][UnitNext]_vars

(*************************** the search directories ************************)

\* A path as written is its parts between slashes: "D1" is <<"D1">> and
\* "D1/./" is <<"D1", ".", "">>.
DirTexts == {<<"D1">>, <<"D1", ".", "">>, <<"D2">>}

\* Path::components: empty parts and "." are dropped, except in first place.
RECURSIVE ComponentsFrom(_, _)
ComponentsFrom(text, i) ==
    IF i > Len(text) THEN <<>>
    ELSE IF i > 1 /\ text[i] \in {"", "."} THEN ComponentsFrom(text, i + 1)
    ELSE <<text[i]>> \o ComponentsFrom(text, i + 1)
components(text) == ComponentsFrom(text, 1)

\* PartialEq of PathBuf and &Path: the components are compared.
path_eq_as_text(a, b) == a = b
path_eq(a, b) == components(a) = components(b)

\* Vec::retain(|s| *s != path).
retain_ne(list, path) == SelectSeq(list, LAMBDA s : ~path_eq(s, path))

\* Preferences::write_to_disk: the file written when std::fs::write
\* succeeds, left as it was when it fails.
write_to_disk(list, ok) ==
    IF ok THEN [exists |-> TRUE, recipe_search_dirs |-> list] ELSE prefs_file

\* add_to_search_dirs(path): push, then write.
AddToSearchDirs(path) ==
    /\ call = NoCall
    /\ Len(recipe_search_dirs) < MaxDirs
    /\ recipe_search_dirs' = Append(recipe_search_dirs, path)
    /\ \E ok \in BOOLEAN :
          /\ prefs_file' = write_to_disk(recipe_search_dirs', ok)
          /\ call' = [fn |-> "add_to_search_dirs",
                      arg |-> [self |-> recipe_search_dirs, path |-> path],
                      result |-> IF ok THEN "Ok" ELSE "Err"]
    /\ UNCHANGED <<files, recipe_map_file, build_log, pc, id, recipe,
                   identifier_chain, failure, looked_up>>

\* remove_from_search_dirs(path): retain, then write, match or no match.
RemoveFromSearchDirs(path) ==
    /\ call = NoCall
    /\ recipe_search_dirs' = retain_ne(recipe_search_dirs, path)
    /\ \E ok \in BOOLEAN :
          /\ prefs_file' = write_to_disk(recipe_search_dirs', ok)
          /\ call' = [fn |-> "remove_from_search_dirs",
                      arg |-> [self |-> recipe_search_dirs, path |-> path],
                      result |-> IF ok THEN "Ok" ELSE "Err"]
    /\ UNCHANGED <<files, recipe_map_file, build_log, pc, id, recipe,
                   identifier_chain, failure, looked_up>>

\* The caller has taken the result of a call on the preferences.
PrefsReturn ==
    /\ call # NoCall
    /\ call' = NoCall
    /\ UNCHANGED <<files, recipe_search_dirs, recipe_map_file, build_log, pc,
                   id, recipe, identifier_chain, failure, prefs_file, looked_up>>

\* Preferences::new: the one search directory ".", nothing written yet.
PrefsInit ==
    /\ files = [p \in Paths |-> Absent]
    /\ recipe_search_dirs = << <<".">> >>
    /\ recipe_map_file = NoMapFile
    /\ build_log = <<>>
    /\ pc = "idle"
    /\ id = <<>>
    /\ recipe = NoRecipe
    /\ identifier_chain = <<>>
    /\ failure = ""
    /\ call = NoCall
    /\ prefs_file = NoPrefsFile
    /\ looked_up = <<>>

PrefsNext ==
    \/ \E path \in DirTexts : AddToSearchDirs(path)
    \/ \E path \in DirTexts \cup {<<".">>} : RemoveFromSearchDirs(path)
    \/ PrefsReturn

PrefsSpec == PrefsInit /\ [][PrefsNext]_vars

(***************************** the walk alone ******************************)

GetAllRecipesRecursivelyFromFolder(dir) ==
    /\ call = NoCall
    /\ \E w \in get_all_recipes_recursively_from_folder(dir) :
          call' = [fn |-> "get_all_recipes_recursively_from_folder",
                   arg |-> dir, result |-> w]
    /\ UNCHANGED program

\* D1/Root.recipe, D2/Leaf.recipe and D2/.git/Mid.download.recipe, and any
\* of the other places under D1.
WalkInit ==
    /\ \E there \in SUBSET WalkPaths :
          files = [p \in {P1, P3, P7} \cup WalkPaths |->
                     IF p = P1 THEN RootDoc
                     ELSE IF p = P3 THEN LeafDoc
                     ELSE IF p = P7 THEN MidDoc
                     ELSE IF p \notin there THEN Absent
                     ELSE IF p = W7 THEN DirDoc
                     ELSE IF p = W6 THEN OtherDoc
                     ELSE RootAltDoc]
    /\ recipe_search_dirs = <<"D1", "D2">>
    /\ recipe_map_file = NoMapFile
    /\ build_log = <<>>
    /\ pc = "idle"
    /\ id = <<>>
    /\ recipe = NoRecipe
    /\ identifier_chain = <<>>
    /\ failure = ""
    /\ call = NoCall
    /\ prefs_file = NoPrefsFile
    /\ looked_up = <<>>

WalkNext ==
    \/ \E dir \in {"D1", "D2"} : GetAllRecipesRecursivelyFromFolder(dir)
    \/ Return

WalkSpec == WalkInit /\ [][WalkNext]_vars


(***************************************************************************)
(* What the specification asks of a resolution, for stating the claims.    *)
(***************************************************************************)

\* A table of the index on disk (empty when the file or the table is not there).
IndexTable(t) ==
    IF recipe_map_file.exists /\ t \in DOMAIN read_recipe_map(recipe_map_file)
    THEN read_recipe_map(recipe_map_file)[t]
    ELSE EmptyMap

\* The chain of an identifier, requested recipe first and root last, found by
\* following parentRecipe through the identifiers table with a visited set.
RECURSIVE IntendedChain(_, _)
IntendedChain(identifier, visited) ==
    IF \/ identifier \in visited
       \/ identifier \notin DOMAIN IndexTable("identifiers")
       \/ read_recipe(IndexTable("identifiers")[identifier]).status # "ok"
    THEN [ok |-> FALSE, chain |-> <<>>]
    ELSE LET r == read_recipe(IndexTable("identifiers")[identifier]).recipe
         IN  IF r.parent_recipe = <<>>
             THEN [ok |-> TRUE, chain |-> <<r>>]
             ELSE LET up == IntendedChain(r.parent_recipe[1], visited \cup {identifier})
                  IN  [ok |-> up.ok, chain |-> <<r>> \o up.chain]

\* The merged input of a chain: root first, each level overwriting.
RECURSIVE MergedInput(_)
MergedInput(chain) ==
    IF chain = <<>> THEN NoInput
    ELSE LET above == MergedInput(Tail(chain))
             own == Head(chain).input
         IN  [k \in (DOMAIN above) \cup (DOMAIN own) |->
                 IF k \in DOMAIN own THEN own[k] ELSE above[k]]

\* The process of a chain: root first, requested recipe last.
RECURSIVE ConcatProcess(_)
ConcatProcess(chain) ==
    IF chain = <<>> THEN <<>>
    ELSE ConcatProcess(Tail(chain)) \o Head(chain).process

Resolving == pc \in {"loop_test", "loop_body"}

(******************************* claims ************************************)

\* C1: a resolution stops after a bounded number of parent look-ups: the
\* chain it walks never holds more identifiers than the index has, plus the
\* one that is missing, and when the requested recipe's chain ends in a root
\* it never holds more than that chain has recipes.
C1_BoundedLookups ==
    Resolving =>
        /\ Len(identifier_chain) <= Cardinality(DOMAIN IndexTable("identifiers")) + 1
        /\ IntendedChain(id, {}).ok =>
              Len(identifier_chain) <= Len(IntendedChain(id, {}).chain)

\* C2: when the walk reaches an identifier it has already visited (a recipe
\* that names itself as parent included), the resolution has failed with
\* CyclicParentChain.
C2_CycleSafety ==
    (\E i, j \in DOMAIN identifier_chain :
        i < j /\ identifier_chain[i] = identifier_chain[j])
    => (~Resolving /\ failure = "CyclicParentChain")

\* C3: resolving a recipe that has a parent, with a chain that ends in a
\* root, gives a recipe whose input is the union of the chain's inputs, the
\* level closest to the requested recipe winning.
C3_MergePrecedence ==
    (pc = "loop_test" /\ IntendedChain(id, {}).ok)
    ~> (pc = "returned" /\ recipe.input = MergedInput(IntendedChain(id, {}).chain))

\* C4: resolving a recipe that has a parent, with a chain that ends in a
\* root, gives a recipe whose process is the chain's processes concatenated,
\* root first and requested recipe last.
C4_ProcessOrdering ==
    (pc = "loop_test" /\ IntendedChain(id, {}).ok)
    ~> (pc = "returned" /\ recipe.process = ConcatProcess(IntendedChain(id, {}).chain))

\* C5: a requested name that is no key of identifiers but a key of shortnames
\* resolves, to the recipe in the file the short name maps to.
C5_LookupFallback ==
    (/\ pc # "idle"
     /\ id \notin DOMAIN IndexTable("identifiers")
     /\ id \in DOMAIN IndexTable("shortnames"))
    => /\ pc # "panicked"
       /\ recipe.identifier = DocAt(IndexTable("shortnames")[id]).Identifier

\* C6: with an index on disk, a requested name in neither table, or a parent
\* identifier that is not in identifiers, ends the resolution with the
\* recoverable failure RecipeNotFound; nothing panics.
C6_NotFoundRecoverable ==
    /\ (/\ pc # "idle"
        /\ recipe_map_file.exists
        /\ id \notin DOMAIN IndexTable("identifiers")
        /\ id \notin DOMAIN IndexTable("shortnames"))
       => (pc # "panicked" /\ failure = "RecipeNotFound")
    /\ (/\ pc \notin {"idle", "loop_body"}
        /\ Len(identifier_chain) >= 2
        /\ identifier_chain[2] \notin DOMAIN IndexTable("identifiers"))
       => (pc # "loop_test" /\ pc # "panicked" /\ failure = "RecipeNotFound")

\* The identifier a candidate file yields.
IdentifierOf(p) == files[p].Identifier

\* The last place in the scan order (the search directories as configured,
\* then the repository directory) where a candidate satisfies has(p).
ScanOrder == recipe_search_dirs \o <<recipe_repo_dir>>
LastFound(has(_)) ==
    LET at == {i \in DOMAIN ScanOrder : \E p \in Candidates(ScanOrder[i]) : has(p)}
    IN  CHOOSE i \in at : \A j \in at : j <= i

AllCandidates == UNION {Candidates(ScanOrder[i]) : i \in DOMAIN ScanOrder}

CandidatesReadable ==
    \A p \in AllCandidates : files[p].format = "plist" /\ files[p].idtype = "string"

C8_Idempotent ==
    \A a, b \in DOMAIN build_log :
        (build_log[a].outcome = "ok" /\ build_log[b].outcome = "ok")
        => build_log[a].written = build_log[b].written

\* C9: a candidate that yields no Identifier string is skipped: every build
\* completes and its index holds the entries of every other candidate.
C9_BestEffort ==
    \A b \in DOMAIN build_log :
        /\ build_log[b].outcome = "ok"
        /\ \A p \in AllCandidates :
              (files[p].format = "plist" /\ files[p].idtype = "string")
              => /\ IdentifierOf(p) \in DOMAIN read_recipe_map(build_log[b].written)["identifiers"]
                 /\ calculate_short_name(p) \in DOMAIN read_recipe_map(build_log[b].written)["shortnames"]

\* C10: load_recipe never returns a recipe that is not valid.
C10_ValidatedResult ==
    pc = "returned" => is_valid_recipe(recipe)

\* C11: is_valid_recipe is true exactly when description, identifier and
\* minimum_version are all non-empty and input has the key NAME; recipes that
\* differ only in parent_recipe, process or trust info get the same answer.
C11_ValidIff ==
    call.fn = "is_valid_recipe" =>
        /\ call.result = (/\ call.arg.description # ""
                          /\ call.arg.identifier # <<>>
                          /\ call.arg.minimum_version # ""
                          /\ "NAME" \in DOMAIN call.arg.input)
        /\ \A r \in UnitRecipes :
              (/\ r.description = call.arg.description
               /\ r.identifier = call.arg.identifier
               /\ r.minimum_version = call.arg.minimum_version
               /\ r.input = call.arg.input)
              => is_valid_recipe(r) = call.result

\* C11 happens: a recipe with a parent and trust info was found valid.
C11_Witness ==
    /\ call.fn = "is_valid_recipe"
    /\ call.result = TRUE
    /\ call.arg.parent_recipe # <<>>
    /\ call.arg.parent_recipe_trust_info # <<>>
    /\ call.arg.process = <<>>

\* Whether the file at a path is a property list that holds a recipe.
PlistHoldsRecipe(path) ==
    /\ DocAt(path).format = "plist"
    /\ DocAt(path).idtype = "string"
    /\ DocAt(path).lacks = {}

\* Whether the file at a path is YAML that holds a recipe.
YamlHoldsRecipe(path) ==
    /\ DocAt(path).format = "yaml"
    /\ DocAt(path).idtype = "string"
    /\ DocAt(path).lacks = {}

\* C12: read_recipe runs the property-list parser first; when that gives a
\* recipe it is the result and the YAML parser is not run; the YAML parser
\* is run, second, only when the property-list parser failed.
C12_ParserOrder ==
    call.fn = "read_recipe" =>
        /\ call.result.attempts[1] = "plist"
        /\ PlistHoldsRecipe(call.arg) =>
              /\ call.result.attempts = <<"plist">>
              /\ call.result.status = "ok"
              /\ call.result.recipe.identifier = DocAt(call.arg).Identifier
        /\ ~PlistHoldsRecipe(call.arg) =>
              call.result.attempts = <<"plist", "yaml">>

\* C12 happens: a YAML recipe was read, by the second parser.
C12_Witness ==
    /\ call.fn = "read_recipe"
    /\ YamlHoldsRecipe(call.arg)
    /\ call.result.status = "ok"
    /\ call.result.attempts = <<"plist", "yaml">>
    /\ call.result.recipe.identifier = idRoot

\* C13: read_recipe never panics: for every path, a file that does not exist
\* included, it gives a recipe or, when neither encoding yields one, the
\* error UnreadableFileError as a value.
C13_NeverPanics ==
    call.fn = "read_recipe" =>
        /\ call.result.status \in {"ok", "err"}
        /\ (~PlistHoldsRecipe(call.arg) /\ ~YamlHoldsRecipe(call.arg))
              => call.result.status = "err"

\* C14: on a map with both tables, find_recipe_in_map gives identifiers[name]
\* when name is a key of identifiers, also when shortnames maps the name to
\* another path; else shortnames[name] when name is a key of shortnames;
\* else nothing.
C14_LookupOrder ==
    (/\ call.fn = "find_recipe_in_map"
     /\ DOMAIN call.arg.map = {"identifiers", "shortnames"})
    => LET identifiers == call.arg.map["identifiers"]
           shortnames == call.arg.map["shortnames"]
           name == call.arg.name
       IN  /\ ~call.result.panicked
           /\ name \in DOMAIN identifiers
                 => call.result.found = <<identifiers[name]>>
           /\ (name \notin DOMAIN identifiers /\ name \in DOMAIN shortnames)
                 => call.result.found = <<shortnames[name]>>
           /\ (name \notin DOMAIN identifiers /\ name \notin DOMAIN shortnames)
                 => call.result.found = <<>>

\* C14 happens: the name is a key of both tables, with two paths, and the
\* path of identifiers was given.
C14_Witness ==
    /\ call.fn = "find_recipe_in_map"
    /\ DOMAIN call.arg.map = {"identifiers", "shortnames"}
    /\ call.arg.name \in DOMAIN call.arg.map["identifiers"]
    /\ call.arg.name \in DOMAIN call.arg.map["shortnames"]
    /\ call.arg.map["identifiers"][call.arg.name] = P4
    /\ call.arg.map["shortnames"][call.arg.name] = P1
    /\ call.result.found = <<P4>>

\* C15: for a file name that ends in ".recipe", calculate_short_name gives
\* the name without that last ".recipe", whatever the directories of the
\* path and the other dots of the name.
C15_ShortName ==
    (/\ call.fn = "calculate_short_name"
     /\ is_recipe_file(call.arg.rel[Len(call.arg.rel)]))
    => LET name == call.arg.rel[Len(call.arg.rel)]
       IN  call.result = SubSeq(name, 1, Len(name) - 1)

\* The file the index on disk gives an identifier.
IndexedPath(identifier) == IndexTable("identifiers")[identifier]

\* C16: the resolution of a recipe that has a parent, with a chain that ends
\* in a root, gives a recipe with the description, the identifier and the
\* minimum version of the requested recipe, none of an ancestor.
C16_ScalarFields ==
    (pc = "loop_test" /\ IntendedChain(id, {}).ok)
    ~> (/\ pc = "returned"
        /\ recipe.description = DocAt(IndexedPath(id)).Description
        /\ recipe.identifier = DocAt(IndexedPath(id)).Identifier
        /\ recipe.minimum_version = DocAt(IndexedPath(id)).MinimumVersion)

\* Whether a name is the identifier of an indexed, readable recipe that has
\* no ParentRecipe.
RootRequested(name) ==
    /\ name \in DOMAIN IndexTable("identifiers")
    /\ PlistHoldsRecipe(IndexedPath(name))
    /\ DocAt(IndexedPath(name)).ParentRecipe = <<>>

\* C17: a load_recipe call for a recipe without ParentRecipe returns at once,
\* with no chain walked and no second look-up, the recipe as its file holds
\* it: same fields, same input, same process.
C17_RootAsIs ==
    [][(pc = "idle" /\ pc' # "idle" /\ RootRequested(id'))
       => /\ pc' = "returned"
          /\ identifier_chain' = <<>>
          /\ recipe'.description = DocAt(IndexedPath(id')).Description
          /\ recipe'.identifier = DocAt(IndexedPath(id')).Identifier
          /\ recipe'.minimum_version = DocAt(IndexedPath(id')).MinimumVersion
          /\ recipe'.parent_recipe = <<>>
          /\ recipe'.input = DocAt(IndexedPath(id')).Input
          /\ recipe'.process = DocAt(IndexedPath(id')).Process]_vars

\* C17 happens: com.Root, which has no parent, was requested and returned.
C17_Witness ==
    /\ pc = "returned"
    /\ id = idRoot
    /\ RootRequested(id)
    /\ recipe.input = RootDoc.Input
    /\ recipe.process = <<"r1", "r2">>

\* Whether an identifier is indexed to a file that is there and that neither
\* parser reads as a recipe.
LocatedUnparsable(identifier) ==
    /\ identifier \in DOMAIN IndexTable("identifiers")
    /\ DocAt(IndexedPath(identifier)).format # "absent"
    /\ ~PlistHoldsRecipe(IndexedPath(identifier))
    /\ ~YamlHoldsRecipe(IndexedPath(identifier))

\* C18: a resolution whose requested recipe, or whose parent, is indexed to
\* a file that neither parser reads ends with the failure UnreadableDocument
\* given to the caller; it does not panic and does not go on.
C18_UnreadableTyped ==
    /\ (pc # "idle" /\ LocatedUnparsable(id))
       => (pc # "panicked" /\ failure = "UnreadableDocument")
    /\ (/\ pc \notin {"idle", "loop_body"}
        /\ Len(identifier_chain) >= 2
        /\ LocatedUnparsable(identifier_chain[2]))
       => (pc # "loop_test" /\ pc # "panicked" /\ failure = "UnreadableDocument")

\* The (identifier, path) pairs of a chain given requested recipe first,
\* listed root first.
ChainFingerprints(chain) ==
    [i \in 1..Len(chain) |->
        <<chain[Len(chain) - i + 1].identifier,
          IndexedPath(chain[Len(chain) - i + 1].identifier)>>]

\* C19: for a recipe whose chain resolves, the list of chain fingerprints has
\* one (identifier, path) pair per recipe of the chain, the root first and
\* the requested recipe last, each with the path its recipe was read from.
C19_ChainFingerprints ==
    (/\ call.fn = "generate_recipe_override"
     /\ IntendedChain(call.arg.identifier, {}).ok)
    => call.result = ChainFingerprints(IntendedChain(call.arg.identifier, {}).chain)

\* C20: a build that completes writes an index whose keys all come from a
\* candidate of this scan: an identifier or short name of the index before
\* whose file is in no scanned directory any more is not in it.
C20_Wholesale ==
    [][(/\ build_log' # build_log
        /\ build_log'[Len(build_log')].outcome = "ok")
       => /\ recipe_map_file' = build_log'[Len(build_log')].written
          /\ DOMAIN read_recipe_map(recipe_map_file')["identifiers"]
                \subseteq {IdentifierOf(p) : p \in AllCandidates}
          /\ DOMAIN read_recipe_map(recipe_map_file')["shortnames"]
                \subseteq {calculate_short_name(p) : p \in AllCandidates}]_vars

\* C20 happens: the first build indexed com.Leaf and Leaf, their files were
\* deleted, and the index of the second build has neither.
C20_Witness ==
    /\ Len(build_log) = 2
    /\ build_log[1].outcome = "ok" /\ build_log[2].outcome = "ok"
    /\ idLeaf \in DOMAIN read_recipe_map(build_log[1].written)["identifiers"]
    /\ <<"Leaf">> \in DOMAIN read_recipe_map(build_log[1].written)["shortnames"]
    /\ files[P3] = Absent /\ files[P6] = Absent
    /\ recipe_map_file = build_log[2].written
    /\ idLeaf \notin DOMAIN IndexTable("identifiers")
    /\ <<"Leaf">> \notin DOMAIN IndexTable("shortnames")
    /\ idRoot \in DOMAIN IndexTable("identifiers")

\* C21: while a recipe whose chain ends in a root is being resolved, each
\* identifier of the chain after the first is the ParentRecipe of the recipe
\* indexed under the one before it, each look-up after the first asks for the
\* identifier appended last and never for the requested one again, and no
\* identifier is in the chain twice.
C21_ChainWalkStep ==
    (Resolving /\ IntendedChain(id, {}).ok) =>
        /\ \A k \in 2..Len(identifier_chain) :
              <<identifier_chain[k]>> =
                  DocAt(IndexedPath(identifier_chain[k - 1])).ParentRecipe
        /\ \A k \in 2..Len(looked_up) :
              /\ looked_up[k].identifier = identifier_chain[k]
              /\ looked_up[k].identifier # id
        /\ \A i, j \in DOMAIN identifier_chain :
              identifier_chain[i] = identifier_chain[j] => i = j

\* C23: has_parent is true exactly when parent_recipe is present and not the
\* empty string: an absent parent and an empty one both give false.
C23_HasParent ==
    call.fn = "has_parent" =>
        /\ call.result = (/\ call.arg.parent_recipe # <<>>
                          /\ call.arg.parent_recipe[1] # <<>>)
        /\ call.arg.parent_recipe \in {<<>>, << <<>> >>} => call.result = FALSE

\* C23 happens: has_parent answered false for a recipe whose parent is the
\* empty string.
C23_Witness ==
    /\ call.fn = "has_parent"
    /\ call.arg.parent_recipe = << <<>> >>
    /\ call.result = FALSE

\* C28: on an index file that parses, find_recipe_in_map and
\* get_recipe_path_by_identifier do not panic, whatever tables the index holds
\* and whatever name is asked for.
C28_NoPanicOnAcceptedIndex ==
    /\ call.fn = "find_recipe_in_map" => ~call.result.panicked
    /\ (call.fn = "get_recipe_path_by_identifier" /\ recipe_map_file.exists)
          => call.result.panic = ""

\* C30: get_string_key_from_recipe_value gives the value under the key when
\* the document is a dictionary that holds the key with a string, and panics
\* when the document is no dictionary, lacks the key or holds another type
\* under it.
C30_StringKeyOrPanic ==
    call.fn = "get_string_key_from_recipe_value" =>
        LET v == call.arg.recipe_data
            k == call.arg.key
        IN  IF /\ v.type = "dictionary"
               /\ k \in DOMAIN v.entries
               /\ v.entries[k].type = "string"
            THEN /\ ~call.result.panicked
                 /\ call.result.value = v.entries[k].string
            ELSE call.result.panicked

\* C30 happens: the key Process, an array in a dictionary whose Identifier is
\* a string, made the call panic.
C30_Witness ==
    /\ call.fn = "get_string_key_from_recipe_value"
    /\ call.arg.key = "Process"
    /\ call.arg.recipe_data.type = "dictionary"
    /\ DOMAIN call.arg.recipe_data.entries = {"Identifier", "Process"}
    /\ call.arg.recipe_data.entries["Identifier"].type = "string"
    /\ call.arg.recipe_data.entries["Process"].type = "array"
    /\ call.result.panicked

\* C26: a load_recipe call that has read the requested recipe returns it as a
\* root, with one look-up and no chain, exactly when has_parent() is false
\* for it, a parent that is the empty string included; and it never looks up
\* the empty identifier.
C26_RootIffNoParent ==
    /\ pc \in {"loop_test", "loop_body", "returned"}
          => ((pc = "returned" /\ Len(looked_up) = 1 /\ identifier_chain = <<>>)
              <=> ~has_parent(recipe))
    /\ \A k \in DOMAIN looked_up : looked_up[k].identifier # <<>>

\* Whether a name begins with ".git".
BeginsWithDotGit(name) ==
    Len(name) >= 2 /\ name[1] = "" /\ name[2] \in {"git", "github", "gitkeep"}

\* C22: the walk of a directory gives exactly the entries that are there 1 to
\* 3 levels below it, whose name ends in ".recipe", and that have no name
\* beginning with ".git", their own or a directory's on the way; nothing 4
\* levels down and nothing from a ".git*" subtree is among them.
C22_CandidateSet ==
    call.fn = "get_all_recipes_recursively_from_folder" =>
        /\ {call.result[i] : i \in DOMAIN call.result} =
              {p \in DOMAIN files :
                  /\ p.dir = call.arg
                  /\ files[p] # Absent
                  /\ Len(p.rel) \in 1..3
                  /\ Len(p.rel[Len(p.rel)]) >= 2
                  /\ p.rel[Len(p.rel)][Len(p.rel[Len(p.rel)])] = "recipe"
                  /\ \A i \in DOMAIN p.rel : ~BeginsWithDotGit(p.rel[i])}
        /\ \A i \in DOMAIN call.result :
              /\ Len(call.result[i].rel) < 4
              /\ \A k \in DOMAIN call.result[i].rel :
                    ~BeginsWithDotGit(call.result[i].rel[k])

\* C22 happens: with every place under D1 holding an entry, the walk of D1
\* gave the file three levels down, the one in sub.git, the directory
\* pkg.recipe and the file .recipe, and none of the file four levels down,
\* the one in .github, .gitkeep.recipe and Root.plist.
C22_Witness ==
    /\ call.fn = "get_all_recipes_recursively_from_folder"
    /\ call.arg = "D1"
    /\ \A p \in WalkPaths : files[p] # Absent
    /\ {W1, W5, W7, W8} \subseteq {call.result[i] : i \in DOMAIN call.result}
    /\ {W2, W3, W4, W6} \cap {call.result[i] : i \in DOMAIN call.result} = {}

\* C27: a build that panics while it scans leaves the file at recipe_map_path
\* as it was before the call.
C27_AbortLeavesIndex ==
    [][(/\ build_log' # build_log
        /\ build_log'[Len(build_log')].outcome = "panic")
       => recipe_map_file' = recipe_map_file]_vars

\* C27 happens: a first build wrote an index, D2/Leaf.recipe lost its
\* Identifier, the second build panicked on it after D1 was scanned, and the
\* file is the index of the first build.
C27_Witness ==
    /\ Len(build_log) = 2
    /\ build_log[1].outcome = "ok"
    /\ build_log[2].outcome = "panic"
    /\ recipe_search_dirs = <<"D1", "D2">>
    /\ files[P1] # Absent
    /\ files[P3] = NoIdDoc
    /\ recipe_map_file = build_log[1].written
    /\ idLeaf \in DOMAIN IndexTable("identifiers")

\* The files a table of the index refers to.
TableFiles(t) == {IndexTable(t)[k] : k \in DOMAIN IndexTable(t)}

\* C29 as stated: the index on disk has the same files in its two tables.
C29_TablesSameFiles ==
    recipe_map_file.exists => TableFiles("identifiers") = TableFiles("shortnames")

\* Whether any two candidates that share an identifier share their short
\* name, and any two that share a short name share their identifier.
CollisionsTwoSided ==
    \A p, q \in AllCandidates :
        (IdentifierOf(p) = IdentifierOf(q))
            <=> (calculate_short_name(p) = calculate_short_name(q))

\* C29, amended: a build that completes writes two tables whose values are
\* candidates of the scan, and the two have the same files when the
\* candidates collide on identifier and short name together or not at all.
C29_SameFilesWhenTwoSided ==
    [][(/\ build_log' # build_log
        /\ build_log'[Len(build_log')].outcome = "ok")
       => /\ TableFiles("identifiers")' \cup TableFiles("shortnames")'
                \subseteq AllCandidates
          /\ CollisionsTwoSided
                => TableFiles("identifiers")' = TableFiles("shortnames")']_vars

\* C29 happens: D1/Root.recipe and D1/sub2/Root.recipe, one identifier and
\* one short name, were both scanned, and the index has the same files,
\* three or more, in both tables.
C29_Witness ==
    /\ build_log # <<>>
    /\ build_log[Len(build_log)].outcome = "ok"
    /\ recipe_map_file = build_log[Len(build_log)].written
    /\ {P1, P4} \subseteq AllCandidates
    /\ CollisionsTwoSided
    /\ TableFiles("identifiers") = TableFiles("shortnames")
    /\ Cardinality(TableFiles("identifiers")) >= 3
    /\ TableFiles("identifiers") \subseteq AllCandidates

\* C25: all the look-ups of one load_recipe call read the same content of
\* the recipe map file, also when a build rewrites the file during the call.
C25_OneSnapshot ==
    \A i, j \in DOMAIN looked_up : looked_up[i].map = looked_up[j].map

\* The elements of a list that are not, part for part, the path as written.
RECURSIVE WithoutText(_, _)
WithoutText(list, path) ==
    IF list = <<>> THEN <<>>
    ELSE IF Head(list) = path THEN WithoutText(Tail(list), path)
    ELSE <<Head(list)>> \o WithoutText(Tail(list), path)

SameComponents(a, b) ==
    LET parts(t) == <<Head(t)>> \o SelectSeq(Tail(t), LAMBDA x : x \notin {"", "."})
    IN  parts(a) = parts(b)

\* The elements of a list that do not name the components of the path.
RECURSIVE WithoutPath(_, _)
WithoutPath(list, path) ==
    IF list = <<>> THEN <<>>
    ELSE IF SameComponents(Head(list), path) THEN WithoutPath(Tail(list), path)
    ELSE <<Head(list)>> \o WithoutPath(Tail(list), path)

====
